---- MODULE Spec2Model ----
(***************************************************************************)
(* Cluster state accessor and mutation layer of the operator console:      *)
(* KubernetesManager (the Session and its Resource Catalog reads), the     *)
(* module-level mutators apply_yaml_manifest / restart_deployment, and the *)
(* metrics aggregator of monitoring.py.                                    *)
(*                                                                         *)
(* A Session operation is one atomic action; its return value, the         *)
(* exception it lets escape and the remote calls it issued are recorded in *)
(* s_last (a call-count spy on the API handles).  A mutator invocation is  *)
(* a process that takes one step per remote call, so that other actors can *)
(* interleave between its calls.                                           *)
(***************************************************************************)
EXTENDS Integers, Sequences, FiniteSets, TLC

\* ---------------------------------------------------------------- bounds
MaxDocs == 1
MaxInvocations == 2
MaxItems == 1
MaxPrefix == 2050
MaxBatch == 3
MaxRevisions == 1

\* ------------------------------------------------------------ vocabulary
None == "None"

\* Contexts listed by the local credential store, and the store's
\* current-context (used when a caller passes context=None).
Contexts == {"ctxA", "ctxB"}
CurrentContext == "ctxA"
\* A context name the store does not list: building a client for it throws.
BadContext == "ctxX"
ContextArgs == Contexts \cup {BadContext}

ConfigError == "ConfigException"
ApiNotFound == "ApiException(404)"
ApiConflict == "ApiException(409)"
ApiServerError == "ApiException(500)"

\* Outcome of one remote call as decided by the API server / transport.
RemoteOutcomes == {"ok", ApiNotFound, ApiServerError}

SupportedKinds == {"Deployment", "StatefulSet", "Service", "ConfigMap", "Secret"}
DocKinds == SupportedKinds \cup {"CronJob"}
Names == {"web"}
Namespaces == {None, "default"}

VARIABLES
    \* KubernetesManager fields
    dummy_mode, active_context, available_contexts,
    api_client, core, apps, batch, events, connection_warning,
    \* observation of the most recent Session operation
    s_last,
    \* the orchestration API's objects, per context: a set of <<kind, name>>
    cluster,
    \* per context and deployment name, how many updates other writers have
    \* made to that deployment
    revision,
    \* the mutator invocation in flight (or the last finished one)
    \* m_left: how many documents of the manifest the for loop has not
    \* reached yet (the content of each is drawn when the loop reaches it);
    \* m_doc: the document _apply_single was last called with; m_calls: the
    \* remote calls issued for it (or by restart_deployment)
    m_op, m_pc, m_ctx, m_name, m_left, m_doc, m_api, m_calls,
    m_out, m_err, m_ret,
    \* history of mutator invocations
    m_inv, m_prev, m_single, m_absent, m_switched

sessVars == <<dummy_mode, active_context, available_contexts,
              api_client, core, apps, batch, events, connection_warning>>
mutVars == <<cluster, revision, m_op, m_pc, m_ctx, m_name, m_left, m_doc, m_api, m_calls,
             m_out, m_err, m_ret, m_inv, m_prev, m_single, m_absent>>
vars == <<sessVars, s_last, mutVars, m_switched>>

\* ----------------------------------------------------- Session: helpers
NoLast ==
    [op |-> "init", arg |-> None, ret |-> None, items |-> <<>>, keys |-> {},
     err |-> None, raised |-> None, calls |-> <<>>]

Call(api, verb, ctx) == [api |-> api, verb |-> verb, ctx |-> ctx]

\* config.new_client_from_config(context=name): the context the client is
\* bound to, or ConfigError when the store has no such context.
new_client_from_config(name) ==
    IF name = None THEN CurrentContext
    ELSE IF name \in Contexts THEN name
    ELSE ConfigError

\* _safe_call(func, default) where func is handle.verb(...): a record of the
\* value returned, the calls issued and the warning afterwards.  A missing
\* handle makes func raise AttributeError, which the bare "except Exception"
\* turns into the default without recording a warning.
_safe_call(handle, api, verb, out, val, default) ==
    IF handle = None
    THEN [val |-> default, calls |-> <<>>, err |-> None,
          warn |-> connection_warning]
    ELSE IF out # "ok"
    THEN [val |-> default, calls |-> <<Call(api, verb, handle)>>, err |-> out,
          warn |-> out]
    ELSE [val |-> val, calls |-> <<Call(api, verb, handle)>>, err |-> None,
          warn |-> connection_warning]

ItemLists == {s \in UNION {[1..n -> {"item"}] : n \in 0..MaxItems} : TRUE}

\* ---------------------------------------------------------------- Init
\* KubernetesManager.__init__: with no contexts (or a store that cannot be
\* read) the session starts degraded with the placeholder context; otherwise
\* the store's active context (or the first listed) is selected and
\* set_context has built the handles for it.
InitSession ==
    \/ /\ dummy_mode = TRUE
       /\ active_context = "disconnected"
       /\ available_contexts = {"No kubeconfig found"}
       /\ api_client = None /\ core = None /\ apps = None
       /\ batch = None /\ events = None
       /\ connection_warning \in {None, ConfigError}
    \/ /\ dummy_mode = FALSE
       /\ active_context \in Contexts
       /\ available_contexts = Contexts
       /\ api_client = active_context /\ core = active_context
       /\ apps = active_context /\ batch = active_context
       /\ events = active_context
       /\ connection_warning = None

EmptyDoc == [kind |-> "", name |-> ""]

\* What is remembered of the invocation before the current one: an apply of
\* a single document of a supported kind whose object was absent when it
\* began; nothing of any other invocation.
NoPrev == [op |-> "none", ctx |-> None, doc |-> EmptyDoc, calls |-> <<>>,
           absent |-> FALSE]

InitInvocation ==
    /\ revision = [c \in Contexts |-> [n \in Names |-> 0]]
    /\ m_op = "none" /\ m_pc = "idle" /\ m_ctx = None /\ m_name = None
    /\ m_left = 0 /\ m_doc = EmptyDoc /\ m_api = None /\ m_calls = <<>>
    /\ m_out = None /\ m_err = None /\ m_ret = None
    /\ m_inv = 0 /\ m_prev = NoPrev /\ m_single = FALSE /\ m_absent = FALSE

InitMutator == cluster = [c \in Contexts |-> {}] /\ InitInvocation

Init == InitSession /\ InitMutator /\ s_last = NoLast /\ m_switched = FALSE

\* ------------------------------------------------- Session: set_context
\* A degraded branch that also clears the warning.
SetContextDummyClearsWarning(context_name) ==
    /\ active_context' = context_name
    /\ connection_warning' = None
    /\ UNCHANGED <<api_client, core, apps, batch, events>>
    /\ s_last' = [NoLast EXCEPT !.op = "set_context", !.arg = context_name]

\* The degraded branch: only the recorded name changes.
SetContextDummy(context_name) ==
    /\ active_context' = context_name
    /\ UNCHANGED <<api_client, core, apps, batch, events, connection_warning>>
    /\ s_last' = [NoLast EXCEPT !.op = "set_context", !.arg = context_name]

\* The handles after the client for context_name was built.
SetContextLive(context_name) ==
    LET built == new_client_from_config(context_name) IN
    IF built = ConfigError
    THEN \* line 52 throws before anything is assigned; nothing catches it
         /\ UNCHANGED <<active_context, api_client, core, apps, batch, events,
                        connection_warning>>
         /\ s_last' = [NoLast EXCEPT !.op = "set_context", !.arg = context_name,
                                     !.err = ConfigError, !.raised = ConfigError]
    ELSE /\ api_client' = built /\ core' = built /\ apps' = built
         /\ batch' = built /\ events' = built
         /\ connection_warning' = None
         /\ UNCHANGED active_context
         /\ s_last' = [NoLast EXCEPT !.op = "set_context", !.arg = context_name]

\* set_context without the early return of the degraded branch.
set_context_builds_when_degraded(context_name) ==
    LET built == new_client_from_config(context_name) IN
    /\ IF dummy_mode
       THEN /\ active_context' = context_name
            /\ IF built = ConfigError
               THEN /\ UNCHANGED <<api_client, core, apps, batch, events,
                                   connection_warning>>
                    /\ s_last' = [NoLast EXCEPT !.op = "set_context",
                                     !.arg = context_name, !.err = ConfigError,
                                     !.raised = ConfigError]
               ELSE /\ api_client' = built /\ core' = built /\ apps' = built
                    /\ batch' = built /\ events' = built
                    /\ connection_warning' = None
                    /\ s_last' = [NoLast EXCEPT !.op = "set_context",
                                     !.arg = context_name]
       ELSE SetContextLive(context_name)
    /\ m_switched' = (m_switched \/ m_pc \notin {"idle", "done"})
    /\ UNCHANGED <<dummy_mode, available_contexts, mutVars>>

set_context(context_name) ==
    /\ IF dummy_mode THEN SetContextDummy(context_name)
                     ELSE SetContextLive(context_name)
    /\ m_switched' = (m_switched \/ m_pc \notin {"idle", "done"})
    /\ UNCHANGED <<dummy_mode, available_contexts, mutVars>>

\* ------------------------------------------------ Resource Catalog: lists
\* The shape shared by list_pods .. list_events: the degraded guard, then the
\* namespaced or the all-namespaces call through _safe_call.
ListGuarded(op, handle, api, namespace, out, items) ==
    LET verb == IF namespace # None THEN "list_namespaced" ELSE "list_for_all_namespaces"
        r == _safe_call(handle, api, verb, out, items, <<>>) IN
    IF dummy_mode
    THEN /\ s_last' = [NoLast EXCEPT !.op = op, !.arg = namespace, !.ret = "list"]
         /\ UNCHANGED connection_warning
    ELSE /\ s_last' = [NoLast EXCEPT !.op = op, !.arg = namespace, !.ret = "list",
                          !.items = r.val, !.err = r.err, !.calls = r.calls]
         /\ connection_warning' = r.warn

ReadFrame ==
    UNCHANGED <<dummy_mode, active_context, available_contexts,
                api_client, core, apps, batch, events, mutVars, m_switched>>

list_namespaces(out, items) ==
    LET r == _safe_call(core, "core", "list_namespace", out, items, <<>>) IN
    /\ s_last' = [NoLast EXCEPT !.op = "list_namespaces", !.ret = "list",
                     !.items = r.val, !.err = r.err, !.calls = r.calls]
    /\ connection_warning' = r.warn
    /\ ReadFrame

list_pods(namespace, out, items) ==
    ListGuarded("list_pods", core, "core", namespace, out, items) /\ ReadFrame

list_deployments(namespace, out, items) ==
    ListGuarded("list_deployments", apps, "apps", namespace, out, items) /\ ReadFrame

list_statefulsets(namespace, out, items) ==
    ListGuarded("list_statefulsets", apps, "apps", namespace, out, items) /\ ReadFrame

list_services(namespace, out, items) ==
    ListGuarded("list_services", core, "core", namespace, out, items) /\ ReadFrame

list_jobs(namespace, out, items) ==
    ListGuarded("list_jobs", batch, "batch", namespace, out, items) /\ ReadFrame

list_configmaps(namespace, out, items) ==
    ListGuarded("list_configmaps", core, "core", namespace, out, items) /\ ReadFrame

list_secrets(namespace, out, items) ==
    ListGuarded("list_secrets", core, "core", namespace, out, items) /\ ReadFrame

list_events(namespace, out, items) ==
    ListGuarded("list_events", events, "events", namespace, out, items) /\ ReadFrame

ListOps == {"list_namespaces", "list_pods", "list_deployments", "list_statefulsets",
            "list_services", "list_jobs", "list_configmaps", "list_secrets",
            "list_events"}

\* ------------------------------------------- Resource Catalog: get_logs
NoKubeconfigLogs == "No kubeconfig loaded; cannot fetch logs."
UnableToFetchLogs == "Unable to fetch logs: "

\* get_logs without the degraded guard.
get_logs_unguarded(out) ==
    /\ s_last' =
         IF core = None
         THEN [NoLast EXCEPT !.op = "get_logs", !.raised = "AttributeError"]
         ELSE IF out # "ok"
         THEN [NoLast EXCEPT !.op = "get_logs", !.ret = "Unable to fetch logs: ",
                  !.err = out,
                  !.calls = <<Call("core", "read_namespaced_pod_log", core)>>]
         ELSE [NoLast EXCEPT !.op = "get_logs", !.ret = "log text",
                  !.calls = <<Call("core", "read_namespaced_pod_log", core)>>]
    /\ UNCHANGED connection_warning
    /\ UNCHANGED <<dummy_mode, active_context, available_contexts,
                   api_client, core, apps, batch, events, mutVars, m_switched>>

\* Only ApiException is caught; the warning is not touched.
get_logs(out) ==
    /\ s_last' =
         IF dummy_mode
         THEN [NoLast EXCEPT !.op = "get_logs", !.ret = NoKubeconfigLogs]
         ELSE IF core = None
         THEN [NoLast EXCEPT !.op = "get_logs", !.raised = "AttributeError"]
         ELSE IF out # "ok"
         THEN [NoLast EXCEPT !.op = "get_logs", !.ret = UnableToFetchLogs,
                  !.err = out,
                  !.calls = <<Call("core", "read_namespaced_pod_log", core)>>]
         ELSE [NoLast EXCEPT !.op = "get_logs", !.ret = "log text",
                  !.calls = <<Call("core", "read_namespaced_pod_log", core)>>]
    /\ UNCHANGED connection_warning
    /\ ReadFrame

\* ------------------------------------------- Resource Catalog: get_node
get_node(out) ==
    LET r == _safe_call(core, "core", "read_node", out, "node", None) IN
    /\ IF dummy_mode
       THEN /\ s_last' = [NoLast EXCEPT !.op = "get_node"]
            /\ UNCHANGED connection_warning
       ELSE /\ s_last' = [NoLast EXCEPT !.op = "get_node", !.ret = r.val,
                             !.err = r.err, !.calls = r.calls]
            /\ connection_warning' = r.warn
    /\ ReadFrame

\* ---------------------------------- Resource Catalog: get_resource_yaml
NoKubeconfigManifest == "No kubeconfig loaded; unable to load manifest."

\* Top-level keys of obj.to_dict() for the object read.
ToDictKeys(kind) ==
    IF kind \in {"Deployment", "StatefulSet", "Service"}
    THEN {"api_version", "kind", "metadata", "spec", "status"}
    ELSE IF kind = "ConfigMap"
    THEN {"api_version", "kind", "metadata", "data", "binary_data", "immutable"}
    ELSE {"api_version", "kind", "metadata", "data", "string_data", "immutable", "type"}

\* A _strip_status that pops nothing.
_strip_status_pops_nothing(manifest) == manifest

\* manifest.pop("status", None)
_strip_status(manifest) == manifest \ {"status"}

\* The handle each entry of the loader table reads through.
LoaderHandle(kind) == IF kind \in {"Deployment", "StatefulSet"} THEN apps ELSE core
LoaderApi(kind) == IF kind \in {"Deployment", "StatefulSet"} THEN "apps" ELSE "core"

\* loader() is called outside any try: an ApiException escapes to the caller.
get_resource_yaml(kind, out) ==
    LET call == Call(LoaderApi(kind), "read_namespaced", LoaderHandle(kind)) IN
    /\ s_last' =
         IF dummy_mode
         THEN [NoLast EXCEPT !.op = "get_resource_yaml", !.arg = kind,
                  !.ret = NoKubeconfigManifest]
         ELSE IF kind \notin SupportedKinds
         THEN [NoLast EXCEPT !.op = "get_resource_yaml", !.arg = kind,
                  !.raised = "KeyError"]
         ELSE IF LoaderHandle(kind) = None
         THEN [NoLast EXCEPT !.op = "get_resource_yaml", !.arg = kind,
                  !.raised = "AttributeError"]
         ELSE IF out # "ok"
         THEN [NoLast EXCEPT !.op = "get_resource_yaml", !.arg = kind,
                  !.err = out, !.raised = out, !.calls = <<call>>]
         ELSE [NoLast EXCEPT !.op = "get_resource_yaml", !.arg = kind,
                  !.ret = "yaml", !.keys = _strip_status(ToDictKeys(kind)),
                  !.calls = <<call>>]
    /\ UNCHANGED connection_warning
    /\ ReadFrame

\* ------------------------------------------------- Metrics Aggregator
\* A quantity is the text the metrics API reports: a sequence of characters.
DigitChars == <<"0", "1", "2", "3", "4", "5", "6", "7", "8", "9">>

\* str(n) for a non-negative n.
RECURSIVE Decimal(_)
Decimal(n) ==
    IF n < 10 THEN <<DigitChars[n + 1]>>
    ELSE Append(Decimal(n \div 10), DigitChars[(n % 10) + 1])

\* The text of n followed by the characters of suffix.
Quantity(n, suffix) == Decimal(n) \o suffix

\* value.endswith(suffix)
endswith(value, suffix) ==
    /\ Len(value) >= Len(suffix)
    /\ SubSeq(value, Len(value) - Len(suffix) + 1, Len(value)) = suffix

DigitValue(c) == CHOOSE d \in 0..9 : DigitChars[d + 1] = c

RECURSIVE DigitsValue(_)
DigitsValue(text) ==
    IF text = <<>> THEN 0
    ELSE DigitsValue(SubSeq(text, 1, Len(text) - 1)) * 10
         + DigitValue(text[Len(text)])

\* int(text) on a text without sign: [ok, val]; ok is FALSE where int()
\* raises ValueError (no characters, or a character that is not a digit).
int(text) ==
    IF text = <<>> \/ \E i \in 1..Len(text) : \A d \in 1..10 : DigitChars[d] # text[i]
    THEN [ok |-> FALSE, val |-> 0]
    ELSE [ok |-> TRUE, val |-> DigitsValue(text)]

\* int(p / d) for p >= 0: the quotient truncated.
IntOfQuotient(p, d) == IF p.ok THEN [ok |-> TRUE, val |-> p.val \div d] ELSE p

\* A _parse_quantity whose "Ki" branch does not divide.
_parse_quantity_kibi_unscaled(value) ==
    IF endswith(value, <<"n">>)
    THEN IntOfQuotient(int(SubSeq(value, 1, Len(value) - 1)), 1000000)
    ELSE IF endswith(value, <<"m">>)
    THEN int(SubSeq(value, 1, Len(value) - 1))
    ELSE IF endswith(value, <<"K", "i">>)
    THEN int(SubSeq(value, 1, Len(value) - 2))
    ELSE IF endswith(value, <<"M", "i">>)
    THEN int(SubSeq(value, 1, Len(value) - 2))
    ELSE int(value)

\* _parse_quantity: [ok, val]; ok is FALSE where int() raises ValueError.
_parse_quantity(value) ==
    IF endswith(value, <<"n">>)
    THEN IntOfQuotient(int(SubSeq(value, 1, Len(value) - 1)), 1000000)
    ELSE IF endswith(value, <<"m">>)
    THEN int(SubSeq(value, 1, Len(value) - 1))
    ELSE IF endswith(value, <<"K", "i">>)
    THEN IntOfQuotient(int(SubSeq(value, 1, Len(value) - 2)), 1024)
    ELSE IF endswith(value, <<"M", "i">>)
    THEN int(SubSeq(value, 1, Len(value) - 2))
    ELSE int(value)

\* Usage entries the metrics extension API may report.
UsageSamples ==
    { [cpu |-> Quantity(250, <<"m">>), memory |-> Quantity(2048, <<"K", "i">>)],
      [cpu |-> Quantity(2500000, <<"n">>), memory |-> Quantity(64, <<"M", "i">>)],
      [cpu |-> Quantity(3, <<>>), memory |-> Quantity(1, <<"G", "i">>)] }
UsageLists == UNION {[1..n -> UsageSamples] : n \in 0..MaxItems}

\* _parse_quantity, tabulated over the quantities of those entries.
ParsedQuantity ==
    [value \in {u.cpu : u \in UsageSamples} \cup {u.memory : u \in UsageSamples}
        |-> _parse_quantity(value)]

\* Condition lists a node may carry.
ConditionLists ==
    { <<>>,
      <<[type |-> "Ready", status |-> "True"]>>,
      <<[type |-> "Ready", status |-> "False"],
        [type |-> "KarpenterInitialized", status |-> "True"]>> }

RECURSIVE ScanConditions(_, _)
ScanConditions(conds, condition_type) ==
    IF conds = <<>> THEN "Unknown"
    ELSE IF Head(conds).type = condition_type THEN Head(conds).status
    ELSE ScanConditions(Tail(conds), condition_type)

\* _get_condition: k8s.get_node never raises ApiException (it returns None),
\* and node.status on None raises AttributeError, which is not caught.
_get_condition(out, conds, condition_type) ==
    LET r == _safe_call(core, "core", "read_node", out, "node", None) IN
    IF r.val = None
    THEN [val |-> "Unknown", raised |-> "AttributeError", calls |-> r.calls,
          errs |-> IF r.err = None THEN <<>> ELSE <<r.err>>]
    ELSE [val |-> ScanConditions(conds, condition_type), raised |-> None,
          calls |-> r.calls, errs |-> <<>>]

\* The warning left by a run of guarded calls: the last recorded error.
WarningAfter(errs) ==
    IF errs = <<>> THEN connection_warning ELSE errs[Len(errs)]

\* One NodeMetrics(...) construction: its arguments are evaluated in order.
NodeMetricsOf(usage, pout, pods, nout1, nout2, conds) ==
    LET cpu == ParsedQuantity[usage.cpu]
        mem == ParsedQuantity[usage.memory]
        p == _safe_call(core, "core", "list_pod_for_all_namespaces", pout, pods, <<>>)
        perr == IF p.err = None THEN <<>> ELSE <<p.err>>
        k == _get_condition(nout1, conds, "Ready")
        kp == _get_condition(nout2, conds, "KarpenterInitialized")
        none == [cpu_millicores |-> 0, memory_mebibytes |-> 0, pod_count |-> 0,
                 kubelet_health |-> "", karpenter_health |-> ""]
    IN  IF ~cpu.ok \/ ~mem.ok
        THEN [raised |-> "ValueError", calls |-> <<>>, errs |-> <<>>, m |-> none]
        ELSE IF k.raised # None
        THEN [raised |-> k.raised, calls |-> p.calls \o k.calls,
              errs |-> perr \o k.errs, m |-> none]
        ELSE IF kp.raised # None
        THEN [raised |-> kp.raised, calls |-> p.calls \o k.calls \o kp.calls,
              errs |-> perr \o k.errs \o kp.errs, m |-> none]
        ELSE [raised |-> None, calls |-> p.calls \o k.calls \o kp.calls,
              errs |-> perr,
              m |-> [cpu_millicores |-> cpu.val, memory_mebibytes |-> mem.val,
                     pod_count |-> Len(p.val), kubelet_health |-> k.val,
                     karpenter_health |-> kp.val]]

RECURSIVE NodeLoop(_, _, _, _, _, _, _)
NodeLoop(usages, acc, pout, pods, nout1, nout2, conds) ==
    IF usages = <<>> THEN acc
    ELSE LET r == NodeMetricsOf(Head(usages), pout, pods, nout1, nout2, conds)
             nxt == [raised |-> r.raised, calls |-> acc.calls \o r.calls,
                     errs |-> acc.errs \o r.errs,
                     metrics |-> IF r.raised = None THEN Append(acc.metrics, r.m)
                                 ELSE acc.metrics]
         IN IF r.raised # None THEN nxt
            ELSE NodeLoop(Tail(usages), nxt, pout, pods, nout1, nout2, conds)

fetch_node_metrics(mout, usages, pout, pods, nout1, nout2, conds) ==
    LET call == Call("metrics", "list_cluster_custom_object", api_client)
        start == [raised |-> None, calls |-> <<call>>, errs |-> <<>>, metrics |-> <<>>]
        r == NodeLoop(usages, start, pout, pods, nout1, nout2, conds)
        \* what the cluster answered: the usages reported, the conditions the
        \* nodes carry and the outcome of the two node reads
        answers == [usages |-> usages, conds |-> conds, reads |-> <<nout1, nout2>>]
    IN
    /\ IF dummy_mode \/ api_client = None
       THEN /\ s_last' = [NoLast EXCEPT !.op = "fetch_node_metrics", !.ret = "list"]
            /\ UNCHANGED connection_warning
       ELSE IF mout # "ok"
       THEN /\ s_last' = [NoLast EXCEPT !.op = "fetch_node_metrics", !.ret = "list",
                             !.err = mout, !.calls = <<call>>]
            /\ UNCHANGED connection_warning
       ELSE /\ s_last' =
                 IF r.raised # None
                 THEN [NoLast EXCEPT !.op = "fetch_node_metrics", !.arg = answers,
                          !.raised = r.raised, !.calls = r.calls]
                 ELSE [NoLast EXCEPT !.op = "fetch_node_metrics", !.arg = answers,
                          !.ret = "list", !.items = r.metrics, !.calls = r.calls]
            /\ connection_warning' = WarningAfter(r.errs)
    /\ ReadFrame

\* sum(_parse_quantity(c["usage"].get(dim)) for c in containers)
RECURSIVE SumQuantities(_, _)
SumQuantities(containers, dim) ==
    IF containers = <<>> THEN [ok |-> TRUE, val |-> 0]
    ELSE LET h == ParsedQuantity[IF dim = "cpu" THEN Head(containers).cpu
                                 ELSE Head(containers).memory]
             t == SumQuantities(Tail(containers), dim)
         IN [ok |-> h.ok /\ t.ok, val |-> h.val + t.val]

\* The metrics API reports at most one pod, with the given containers.
fetch_pod_metrics(namespace, mout, reported, containers) ==
    LET verb == IF namespace # None THEN "list_namespaced_custom_object"
                ELSE "list_cluster_custom_object"
        call == Call("metrics", verb, api_client)
        cpu == SumQuantities(containers, "cpu")
        mem == SumQuantities(containers, "memory")
    IN
    /\ s_last' =
         IF dummy_mode \/ api_client = None
         THEN [NoLast EXCEPT !.op = "fetch_pod_metrics", !.arg = namespace,
                  !.ret = "list"]
         ELSE IF mout # "ok"
         THEN [NoLast EXCEPT !.op = "fetch_pod_metrics", !.arg = namespace,
                  !.ret = "list", !.err = mout, !.calls = <<call>>]
         ELSE IF ~reported
         THEN [NoLast EXCEPT !.op = "fetch_pod_metrics", !.arg = namespace,
                  !.ret = "list", !.calls = <<call>>]
         ELSE IF ~cpu.ok \/ ~mem.ok
         THEN [NoLast EXCEPT !.op = "fetch_pod_metrics", !.arg = namespace,
                  !.raised = "ValueError", !.calls = <<call>>]
         ELSE [NoLast EXCEPT !.op = "fetch_pod_metrics", !.arg = namespace,
                  !.ret = "list",
                  !.items = <<[cpu_millicores |-> cpu.val,
                               memory_mebibytes |-> mem.val]>>,
                  !.calls = <<call>>]
    /\ UNCHANGED connection_warning
    /\ ReadFrame

FailOutcomes == {"ok", ApiServerError}

CatalogNext ==
    \/ \E c \in ContextArgs : set_context(c)
    \/ \E out \in RemoteOutcomes, items \in ItemLists : list_namespaces(out, items)
    \/ \E ns \in Namespaces, out \in RemoteOutcomes, items \in ItemLists :
          \/ list_pods(ns, out, items)
          \/ list_deployments(ns, out, items)
          \/ list_statefulsets(ns, out, items)
          \/ list_services(ns, out, items)
          \/ list_jobs(ns, out, items)
          \/ list_configmaps(ns, out, items)
          \/ list_secrets(ns, out, items)
          \/ list_events(ns, out, items)
    \/ \E out \in RemoteOutcomes : get_logs(out)
    \/ \E out \in RemoteOutcomes : get_node(out)
    \/ \E kind \in DocKinds, out \in RemoteOutcomes : get_resource_yaml(kind, out)
    \/ \E mout \in FailOutcomes, usages \in UsageLists, pout \in FailOutcomes,
          pods \in ItemLists, nout1 \in FailOutcomes, nout2 \in FailOutcomes,
          conds \in ConditionLists :
          fetch_node_metrics(mout, usages, pout, pods, nout1, nout2, conds)
    \/ \E ns \in Namespaces, mout \in FailOutcomes, reported \in BOOLEAN,
          containers \in UsageLists :
          fetch_pod_metrics(ns, mout, reported, containers)

CatalogSpec == Init /\ [][CatalogNext]_vars

\* ------------------------------------------- _parse_quantity on its own
HandledSuffixes == {<<"n">>, <<"m">>, <<"K", "i">>, <<"M", "i">>, <<>>}
QuantitySuffixes == HandledSuffixes \cup {<<"G", "i">>}
QuantityPrefixes == 0..MaxPrefix \cup {999999, 1000000, 1999999, 2000000, 2500000}

\* The argument of a call of _parse_quantity: a prefix, a suffix and the text
\* made of them.
QuantityInit ==
    /\ InitSession /\ InitMutator /\ m_switched = FALSE
    /\ \E n \in QuantityPrefixes, suffix \in QuantitySuffixes :
          s_last = [NoLast EXCEPT !.op = "input",
                       !.arg = [n |-> n, suffix |-> suffix,
                                text |-> Quantity(n, suffix)]]

parse_quantity ==
    LET r == _parse_quantity(s_last.arg.text) IN
    /\ s_last.op \in {"input", "_parse_quantity"}
    /\ s_last' = IF r.ok
                 THEN [NoLast EXCEPT !.op = "_parse_quantity", !.arg = s_last.arg,
                                     !.ret = r.val]
                 ELSE [NoLast EXCEPT !.op = "_parse_quantity", !.arg = s_last.arg,
                                     !.raised = "ValueError"]
    /\ UNCHANGED <<sessVars, mutVars, m_switched>>

QuantityNext == parse_quantity

QuantitySpec == QuantityInit /\ [][QuantityNext]_vars

\* ---------------------------------------------------- Manifest Mutator
Docs == {EmptyDoc} \cup [kind : DocKinds, name : Names]

\* A transient fault the API server may answer any call with.
Faults == {"ok", ApiServerError}

\* The API group whose client each branch of _apply_single builds.
ApiGroup(kind) == IF kind \in {"Deployment", "StatefulSet"} THEN "apps" ELSE "core"

Exists(ctx, kind, name) == <<kind, name>> \in cluster[ctx]

\* What the orchestration API answers to each verb.
ReadOutcome(ctx, kind, name, fault) ==
    IF fault # "ok" THEN fault
    ELSE IF Exists(ctx, kind, name) THEN "ok" ELSE ApiNotFound
PatchOutcome(ctx, kind, name, fault) ==
    IF fault # "ok" THEN fault
    ELSE IF Exists(ctx, kind, name) THEN "ok" ELSE ApiNotFound
CreateOutcome(ctx, kind, name, fault) ==
    IF fault # "ok" THEN fault
    ELSE IF Exists(ctx, kind, name) THEN ApiConflict ELSE "ok"

\* The revision of the object a call arrives at (followed for deployments).
Revision(ctx, kind, name) == IF kind = "Deployment" THEN revision[ctx][name] ELSE 0

MCall(verb, kind, name, ctx, out) ==
    [verb |-> verb, kind |-> kind, name |-> name, api |-> ApiGroup(kind),
     ctx |-> ctx, out |-> out, rev |-> Revision(ctx, kind, name)]

\* A Secret branch that creates whatever the read answered.
AfterReadSecretAlwaysCreates(kind, out) ==
    IF out = "ok" /\ kind # "Secret" THEN "patch" ELSE "create"

\* The per-kind try/except of _apply_single: read and patch are both inside
\* the try, so an ApiException of either one reaches the create.
AfterRead(kind, out) == IF out = "ok" THEN "patch" ELSE "create"
AfterPatch(kind, out) == IF out = "ok" THEN "next" ELSE "create"
\* A create whose already-exists answer is taken for success.
AfterCreateIgnoresConflict(kind, out) ==
    IF out \in {"ok", ApiConflict} THEN "next" ELSE "raise"
AfterCreate(kind, out) == IF out = "ok" THEN "next" ELSE "raise"

\* A chain whose last branch is taken for every other kind.
DispatchLastBranchCatchesAll(kind) == "read"

\* The if/elif chain on kind: a per-kind branch, or the final else.
Dispatch(kind) == IF kind \in SupportedKinds THEN "read" ELSE "raise"

\* A mutator that reuses the shared Session's client.
MutatorClientFromSession(context_name) ==
    IF api_client = None THEN ConfigError ELSE api_client

\* The client _apply_single and restart_deployment build for themselves.
MutatorClient(context_name) == new_client_from_config(context_name)

Summary ==
    IF m_op = "apply" /\ m_single /\ m_absent /\ m_doc.kind \in SupportedKinds
    THEN [op |-> m_op, ctx |-> new_client_from_config(m_ctx), doc |-> m_doc,
          calls |-> m_calls, absent |-> m_absent]
    ELSE NoPrev

Begin(op, name, ndocs, context_name) ==
    /\ m_pc \in {"idle", "done"}
    /\ m_inv < MaxInvocations
    /\ m_inv' = m_inv + 1
    /\ m_prev' = Summary
    /\ m_op' = op /\ m_name' = name /\ m_left' = ndocs
    /\ m_ctx' = context_name /\ m_doc' = EmptyDoc /\ m_calls' = <<>>
    /\ m_ret' = None
    /\ m_single' = (op = "apply" /\ ndocs = 1)
    /\ m_absent' = FALSE
    /\ m_switched' = FALSE
    /\ UNCHANGED <<sessVars, s_last, cluster, revision>>

\* parsed = list(yaml.safe_load_all(manifest)): ndocs documents.
apply_yaml_manifest(ndocs, context_name) ==
    /\ Begin("apply", None, ndocs, context_name)
    /\ m_pc' = "loop" /\ m_api' = None /\ m_out' = "running" /\ m_err' = None

\* The caller in the YAML editor page: the write target is the name held in
\* the session's active_context.
render_yaml_editor(ndocs) ==
    /\ ~dummy_mode
    /\ apply_yaml_manifest(ndocs, active_context)

StepFrame == UNCHANGED <<sessVars, s_last, revision, m_op, m_ctx, m_name, m_inv,
                         m_prev, m_single, m_switched>>

Raise(err) == m_pc' = "done" /\ m_out' = "raised" /\ m_err' = err

UnsupportedKind(kind) == "Unsupported kind " \o kind

\* The head of the for loop, and _apply_single up to its first remote call;
\* doc is the next document of the manifest.
apply_loop(doc) ==
    /\ m_pc = "loop"
    /\ IF m_left = 0
       THEN /\ m_pc' = "done" /\ m_out' = "returned"
            /\ UNCHANGED <<m_left, m_doc, m_api, m_err, m_calls, m_absent>>
       ELSE IF doc = EmptyDoc
       THEN /\ m_left' = m_left - 1
            /\ UNCHANGED <<m_pc, m_out, m_doc, m_api, m_err, m_calls, m_absent>>
       ELSE LET api == MutatorClient(m_ctx) IN
            /\ m_left' = m_left - 1
            /\ m_doc' = doc
            /\ m_calls' = <<>>
            /\ m_absent' = (api # ConfigError /\ ~Exists(api, doc.kind, doc.name))
            /\ IF api = ConfigError
               THEN Raise(ConfigError) /\ m_api' = None
               ELSE IF Dispatch(doc.kind) = "read"
               THEN m_api' = api /\ m_pc' = "read" /\ UNCHANGED <<m_out, m_err>>
               ELSE m_api' = api /\ Raise(UnsupportedKind(doc.kind))
    /\ UNCHANGED <<cluster, m_ret>>
    /\ StepFrame

\* A loop that records the error of a document and goes on to the next.
GotoNextAfterRaise(target, out) ==
    IF target = "next"
    THEN m_pc' = "loop" /\ UNCHANGED <<m_out, m_err>>
    ELSE IF target = "raise"
    THEN m_pc' = "loop" /\ m_out' = "raised" /\ m_err' = out
    ELSE m_pc' = target /\ UNCHANGED <<m_out, m_err>>

Goto(target, out) ==
    IF target = "next"
    THEN m_pc' = "loop" /\ UNCHANGED <<m_out, m_err>>
    ELSE IF target = "raise"
    THEN Raise(out)
    ELSE m_pc' = target /\ UNCHANGED <<m_out, m_err>>

apply_read(fault) ==
    LET out == ReadOutcome(m_api, m_doc.kind, m_doc.name, fault) IN
    /\ m_pc = "read"
    /\ m_calls' = Append(m_calls, MCall("read", m_doc.kind, m_doc.name, m_api, out))
    /\ Goto(AfterRead(m_doc.kind, out), out)
    /\ UNCHANGED <<cluster, m_api, m_ret, m_left, m_doc, m_absent>>
    /\ StepFrame

apply_patch(fault) ==
    LET out == PatchOutcome(m_api, m_doc.kind, m_doc.name, fault) IN
    /\ m_pc = "patch"
    /\ m_calls' = Append(m_calls, MCall("patch", m_doc.kind, m_doc.name, m_api, out))
    /\ Goto(AfterPatch(m_doc.kind, out), out)
    /\ UNCHANGED <<cluster, m_api, m_ret, m_left, m_doc, m_absent>>
    /\ StepFrame

apply_create(fault) ==
    LET out == CreateOutcome(m_api, m_doc.kind, m_doc.name, fault) IN
    /\ m_pc = "create"
    /\ m_calls' = Append(m_calls, MCall("create", m_doc.kind, m_doc.name, m_api, out))
    /\ cluster' = IF out = "ok"
                  THEN [cluster EXCEPT ![m_api] = @ \cup {<<m_doc.kind, m_doc.name>>}]
                  ELSE cluster
    /\ Goto(AfterCreate(m_doc.kind, out), out)
    /\ UNCHANGED <<m_api, m_ret, m_left, m_doc, m_absent>>
    /\ StepFrame

\* ---------------------------------------------------- restart_deployment
FetchFailed == "Deployment fetch failed: "
RestartFailed == "Deployment restart failed: "
Restarted(name) == "Deployment " \o name \o " restarted"

restart_deployment(name, context_name) ==
    LET api == MutatorClient(context_name) IN
    /\ Begin("restart", name, 0, context_name)
    /\ IF api = ConfigError
       THEN Raise(ConfigError) /\ m_api' = None
       ELSE m_api' = api /\ m_pc' = "rread" /\ m_out' = "running" /\ m_err' = None

Return(text, err) ==
    m_pc' = "done" /\ m_out' = "returned" /\ m_ret' = text /\ m_err' = err

restart_read(fault) ==
    LET out == ReadOutcome(m_api, "Deployment", m_name, fault) IN
    /\ m_pc = "rread"
    /\ m_calls' = Append(m_calls, MCall("read", "Deployment", m_name, m_api, out))
    /\ IF out # "ok"
       THEN Return(FetchFailed, out)
       ELSE m_pc' = "rpatch" /\ UNCHANGED <<m_out, m_ret, m_err>>
    /\ UNCHANGED <<cluster, m_api, m_left, m_doc, m_absent>>
    /\ StepFrame

\* restart_deployment with the patch outside the second try.
restart_patch_unguarded(fault) ==
    LET out == PatchOutcome(m_api, "Deployment", m_name, fault) IN
    /\ m_pc = "rpatch"
    /\ m_calls' = Append(m_calls, MCall("patch", "Deployment", m_name, m_api, out))
    /\ IF out = "ok"
       THEN Return(Restarted(m_name), None)
       ELSE Raise(out) /\ UNCHANGED m_ret
    /\ UNCHANGED <<cluster, m_api, m_left, m_doc, m_absent>>
    /\ StepFrame

\* restart_deployment reading again when its patch is refused.
restart_patch_retries(fault) ==
    LET out == PatchOutcome(m_api, "Deployment", m_name, fault) IN
    /\ m_pc = "rpatch"
    /\ m_calls' = Append(m_calls, MCall("patch", "Deployment", m_name, m_api, out))
    /\ IF out = "ok"
       THEN Return(Restarted(m_name), None)
       ELSE IF Len(m_calls) < 3
       THEN m_pc' = "rread" /\ UNCHANGED <<m_out, m_ret, m_err>>
       ELSE Return(RestartFailed, out)
    /\ UNCHANGED <<cluster, m_api, m_left, m_doc, m_absent>>
    /\ StepFrame

restart_patch(fault) ==
    LET out == PatchOutcome(m_api, "Deployment", m_name, fault) IN
    /\ m_pc = "rpatch"
    /\ m_calls' = Append(m_calls, MCall("patch", "Deployment", m_name, m_api, out))
    /\ IF out = "ok"
       THEN Return(Restarted(m_name), None)
       ELSE Return(RestartFailed, out)
    /\ UNCHANGED <<cluster, m_api, m_left, m_doc, m_absent>>
    /\ StepFrame

MutatorArgs == ContextArgs \cup {None}

WriteNext ==
    \/ \E ndocs \in 0..MaxDocs, c \in MutatorArgs : apply_yaml_manifest(ndocs, c)
    \/ \E ndocs \in 0..MaxDocs : render_yaml_editor(ndocs)
    \/ \E doc \in Docs : apply_loop(doc)
    \/ \E fault \in Faults : apply_read(fault)
    \/ \E fault \in Faults : apply_patch(fault)
    \/ \E fault \in Faults : apply_create(fault)
    \/ \E name \in Names, c \in MutatorArgs : restart_deployment(name, c)
    \/ \E fault \in Faults : restart_read(fault)
    \/ \E fault \in Faults : restart_patch(fault)

\* The writes of one caller, with nothing else running.
WriteSpec == Init /\ [][WriteNext]_vars

\* The writes with the Session's set_context running between their calls.
MutatorNext ==
    \/ \E c \in ContextArgs : set_context(c)
    \/ WriteNext

MutatorSpec == Init /\ [][MutatorNext]_vars

\* One caller submitting manifests of up to MaxBatch documents.
BatchNext ==
    \/ \E ndocs \in 0..MaxBatch, c \in MutatorArgs : apply_yaml_manifest(ndocs, c)
    \/ \E doc \in Docs : apply_loop(doc)
    \/ \E fault \in Faults : apply_read(fault)
    \/ \E fault \in Faults : apply_patch(fault)
    \/ \E fault \in Faults : apply_create(fault)

BatchSpec == Init /\ [][BatchNext]_vars

\* Another writer of the orchestration API updates a deployment.
other_writer(ctx, name) ==
    /\ Exists(ctx, "Deployment", name)
    /\ revision[ctx][name] < MaxRevisions
    /\ revision' = [revision EXCEPT ![ctx][name] = @ + 1]
    /\ UNCHANGED <<sessVars, s_last, cluster, m_op, m_pc, m_ctx, m_name, m_left,
                   m_doc, m_api, m_calls, m_out, m_err, m_ret, m_inv, m_prev,
                   m_single, m_absent, m_switched>>

\* A cluster that already holds deployments.
RaceInit ==
    /\ InitSession /\ InitInvocation /\ s_last = NoLast /\ m_switched = FALSE
    /\ cluster \in [Contexts -> SUBSET {<<"Deployment", n>> : n \in Names}]

\* The answers to a patch: a stale body may be refused with a conflict.
PatchFaults == Faults \cup {ApiConflict}

RaceNext ==
    \/ \E name \in Names, c \in MutatorArgs : restart_deployment(name, c)
    \/ \E fault \in Faults : restart_read(fault)
    \/ \E fault \in PatchFaults : restart_patch(fault)
    \/ \E c \in Contexts, name \in Names : other_writer(c, name)

RaceSpec == RaceInit /\ [][RaceNext]_vars

Next == CatalogNext \/ MutatorNext

Spec == Init /\ [][Next]_vars

\* ================================================================ claims
CountVerb(calls, verb) == Cardinality({i \in 1..Len(calls) : calls[i].verb = verb})
VerbCalls(verb) == {i \in 1..Len(m_calls) : m_calls[i].verb = verb}

\* C1: on a degraded session every listing operation, with or without a
\* namespace, returns an empty sequence and attempts no remote call, whatever
\* operations ran on the session before.
DegradedListingsEmpty ==
    (dummy_mode /\ s_last.op \in ListOps) =>
        /\ s_last.raised = None
        /\ s_last.ret = "list"
        /\ s_last.items = <<>>
        /\ s_last.calls = <<>>

DegradedListingAfterSetContext ==
    /\ dummy_mode
    /\ active_context \in Contexts
    /\ s_last.op = "list_namespaces"

\* The second of two successive applies of one single-document manifest of a
\* supported kind to the same context, the first of which started with the
\* named object absent from that cluster.
TwiceApplied ==
    /\ m_op = "apply" /\ m_pc = "done" /\ m_single
    /\ m_doc.kind \in SupportedKinds
    /\ m_prev.op = "apply" /\ m_prev.absent
    /\ m_prev.doc = m_doc
    /\ m_prev.ctx = new_client_from_config(m_ctx)

DocApplied ==
    /\ m_op = "apply"
    /\ m_pc \in {"loop", "done"}
    /\ VerbCalls("read") # {}

\* C3: for every supported kind, applying one document issues a create if and
\* only if the read of the named object failed; when the read succeeds exactly
\* one patch and no create is issued, whatever the patch answers.
CreateIffReadFailed ==
    DocApplied =>
        LET readOk == \A i \in VerbCalls("read") : m_calls[i].out = "ok" IN
        /\ (VerbCalls("create") # {}) <=> ~readOk
        /\ readOk => /\ Cardinality(VerbCalls("patch")) = 1
                     /\ VerbCalls("create") = {}

\* The apply stopped at a document whose kind is not supported.
StoppedAtUnsupported ==
    /\ m_op = "apply" /\ m_pc = "done"
    /\ m_doc # EmptyDoc
    /\ m_doc.kind \notin SupportedKinds

\* C4 as stated: a document of an unsupported kind raises the configuration
\* error naming that kind, and no read, patch or create is issued for it.
UnsupportedKindRaisesNamingKind ==
    /\ \A i \in 1..Len(m_calls) : m_calls[i].kind \in SupportedKinds
    /\ StoppedAtUnsupported =>
          /\ m_out = "raised"
          /\ m_err = UnsupportedKind(m_doc.kind)
          /\ m_calls = <<>>

\* C4 amended: a document of an unsupported kind raises an error and no read,
\* patch or create is issued for it; the error is the configuration error
\* naming the kind whenever the client for the given context can be built,
\* and the client-construction error otherwise.
UnsupportedKindRaisesWithoutCalls ==
    /\ \A i \in 1..Len(m_calls) : m_calls[i].kind \in SupportedKinds
    /\ StoppedAtUnsupported =>
          /\ m_out = "raised"
          /\ m_err = (IF new_client_from_config(m_ctx) = ConfigError
                      THEN ConfigError
                      ELSE UnsupportedKind(m_doc.kind))
          /\ m_calls = <<>>

UnsupportedKindReached ==
    /\ StoppedAtUnsupported
    /\ m_err = "Unsupported kind CronJob"
    /\ m_api \in Contexts

RestartDone == m_op = "restart" /\ m_pc = "done"

\* What restart_deployment answers once its client is built.
RestartAnswer ==
    \/ /\ Len(m_calls) = 1
       /\ m_calls[1].verb = "read" /\ m_calls[1].out # "ok"
       /\ m_out = "returned" /\ m_ret = FetchFailed /\ m_err = m_calls[1].out
    \/ /\ Len(m_calls) = 2
       /\ m_calls[1].verb = "read" /\ m_calls[1].out = "ok"
       /\ m_calls[2].verb = "patch"
       /\ m_out = "returned"
       /\ m_ret = (IF m_calls[2].out = "ok" THEN Restarted(m_name) ELSE RestartFailed)

\* C5 as stated: restartWorkload never raises and always returns a string: the
\* fetch-failure string and no patch when the read fails; after a successful
\* read exactly one patch, and the success string naming the workload or the
\* restart-failure string.
RestartAlwaysReturnsString == RestartDone => RestartAnswer

\* C5 amended: restartWorkload never raises on a remote API error, and whenever
\* the client for the given context can be built it returns a string as
\* stated; when the client cannot be built it raises that error before any
\* remote call.
RestartReturnsStringOnceClientBuilt ==
    RestartDone =>
        IF new_client_from_config(m_ctx) = ConfigError
        THEN m_out = "raised" /\ m_err = ConfigError /\ m_calls = <<>>
        ELSE RestartAnswer

RestartPatchFailed ==
    /\ RestartDone
    /\ m_ret = RestartFailed
    /\ Len(m_calls) = 2 /\ m_calls[2].out = ApiServerError

\* C6: on a non-degraded session the context the four handles were built from
\* is the context named by active_context.
HandlesMatchActiveContext ==
    ~dummy_mode =>
        /\ core = active_context /\ apps = active_context
        /\ batch = active_context /\ events = active_context

\* C7: when building the client throws, set_context does not raise; the
\* session becomes degraded and its warning holds the error text.
SetContextFailsSoftly ==
    (s_last.op = "set_context" /\ s_last.err = ConfigError) =>
        /\ s_last.raised = None
        /\ dummy_mode
        /\ connection_warning = ConfigError

CatalogReads == ListOps \cup {"get_node", "get_logs", "get_resource_yaml"}

\* C8: on a non-degraded session no Resource Catalog read lets a failed remote
\* call escape: listings return an empty sequence, get_node none, get_logs
\* the unable-to-fetch message and get_resource_yaml a string.
ReadsNeverPropagate ==
    (~dummy_mode /\ s_last.op \in CatalogReads /\ s_last.err # None) =>
        /\ s_last.raised = None
        /\ s_last.op \in ListOps => s_last.ret = "list" /\ s_last.items = <<>>
        /\ s_last.op = "get_node" => s_last.ret = None
        /\ s_last.op = "get_logs" => s_last.ret = UnableToFetchLogs
        /\ s_last.op = "get_resource_yaml" => s_last.ret # None

\* C9: every remote call of a mutator invocation targets the context its
\* arguments name, and no step of the mutator changes a Session field, also
\* when set_context runs between its calls.
MutatorScopedToArguments ==
    /\ [](\A i \in 1..Len(m_calls) :
             m_calls[i].ctx = new_client_from_config(m_ctx))
    /\ [][(m_pc' # m_pc \/ m_calls' # m_calls) => UNCHANGED <<sessVars, s_last>>]_vars

SwitchedDuringWrite ==
    /\ m_switched /\ m_pc = "done"
    /\ Len(m_calls) >= 2
    /\ core \in Contexts /\ core # m_calls[1].ctx
    /\ m_calls[Len(m_calls)].ctx = m_calls[1].ctx

MetricsOps == {"fetch_node_metrics", "fetch_pod_metrics"}

\* C10: on a degraded session fetch_node_metrics and fetch_pod_metrics (with
\* or without a namespace) return empty sequences without a remote call, and
\* get_logs returns the fixed no-kubeconfig sentinel.
DegradedMetricsAndLogs ==
    dummy_mode =>
        /\ s_last.op \in MetricsOps =>
              /\ s_last.raised = None /\ s_last.ret = "list"
              /\ s_last.items = <<>> /\ s_last.calls = <<>>
        /\ s_last.op = "get_logs" =>
              /\ s_last.raised = None /\ s_last.calls = <<>>
              /\ s_last.ret = "No kubeconfig loaded; cannot fetch logs."

DegradedLogsSentinel ==
    /\ dummy_mode
    /\ s_last.op = "get_logs"
    /\ s_last.ret = NoKubeconfigLogs

\* C11: fetch_node_metrics and fetch_pod_metrics never raise: they return a
\* sequence whatever the metrics API, the per-node reads and the usage
\* quantities are, and an empty one when the metrics API call itself fails.
MetricsNeverThrow ==
    s_last.op \in MetricsOps =>
        /\ s_last.raised = None
        /\ s_last.ret = "list"
        /\ s_last.err # None => s_last.items = <<>>

\* C12: on a non-degraded session, for every supported kind, when the read of
\* the object answers, get_resource_yaml returns a document whose top-level
\* keys are those of the object read without "status".
ManifestTextWithoutStatus ==
    ( /\ ~dummy_mode /\ s_last.op = "get_resource_yaml"
      /\ s_last.arg \in SupportedKinds /\ s_last.err = None ) =>
        /\ s_last.raised = None
        /\ s_last.ret = "yaml"
        /\ "status" \notin s_last.keys
        /\ \A k \in ToDictKeys(s_last.arg) : k # "status" => k \in s_last.keys
        /\ s_last.keys \subseteq ToDictKeys(s_last.arg)

DeploymentManifestRead ==
    /\ ~dummy_mode /\ s_last.op = "get_resource_yaml"
    /\ s_last.arg = "Deployment" /\ s_last.ret = "yaml"
    /\ "spec" \in s_last.keys
    /\ "status" \in ToDictKeys(s_last.arg)

\* The suffix rules, for the prefix and suffix the text was made of.
SuffixRules ==
    (s_last.op = "_parse_quantity" /\ s_last.arg.suffix \in HandledSuffixes) =>
        /\ s_last.raised = None
        /\ s_last.ret =
             (IF s_last.arg.suffix = <<"n">> THEN s_last.arg.n \div 1000000
              ELSE IF s_last.arg.suffix = <<"K", "i">> THEN s_last.arg.n \div 1024
              ELSE s_last.arg.n)

Parsed(text, val) ==
    (s_last.op = "_parse_quantity" /\ s_last.arg.text = text) =>
        (s_last.raised = None /\ s_last.ret = val)

\* C13 as stated: N+"n" yields N div 1000000, N+"m" yields N, N+"Ki" yields
\* N div 1024, N+"Mi" yields N and a bare N yields N; and "500m" -> 500,
\* "2000n" -> 2, "1024Ki" -> 1, "256Mi" -> 256, "3" -> 3.
ParseQuantityAsStated ==
    /\ SuffixRules
    /\ Parsed(<<"5", "0", "0", "m">>, 500)
    /\ Parsed(<<"2", "0", "0", "0", "n">>, 2)
    /\ Parsed(<<"1", "0", "2", "4", "K", "i">>, 1)
    /\ Parsed(<<"2", "5", "6", "M", "i">>, 256)
    /\ Parsed(<<"3">>, 3)

\* C13 amended: the same suffix rules, with "2000n" -> 0 and
\* "2000000n" -> 2 as the examples of the "n" rule.
ParseQuantityRules ==
    /\ SuffixRules
    /\ Parsed(<<"5", "0", "0", "m">>, 500)
    /\ Parsed(<<"2", "0", "0", "0", "n">>, 0)
    /\ Parsed(<<"2", "0", "0", "0", "0", "0", "0", "n">>, 2)
    /\ Parsed(<<"1", "0", "2", "4", "K", "i">>, 1)
    /\ Parsed(<<"2", "5", "6", "M", "i">>, 256)
    /\ Parsed(<<"3">>, 3)

KibiQuantityParsed ==
    /\ s_last.op = "_parse_quantity"
    /\ s_last.arg.text = <<"2", "0", "4", "8", "K", "i">>
    /\ s_last.ret = 2

\* C14: the documents of one submission are applied one at a time in the
\* order of the loop, empty documents issue no call; when the apply of a
\* document raises, the loop ends with that error, nothing an earlier document
\* created is removed, and no call is issued for a later document.
SequentialNoRollback ==
    /\ [](m_op = "apply" =>
            /\ \A i \in 1..Len(m_calls) :
                  /\ m_doc # EmptyDoc
                  /\ m_calls[i].kind = m_doc.kind /\ m_calls[i].name = m_doc.name
            /\ m_out = "raised" => (m_pc = "done" /\ m_err # None)
            /\ ( /\ m_calls # <<>>
                 /\ m_calls[Len(m_calls)].verb = "create"
                 /\ m_calls[Len(m_calls)].out # "ok" ) =>
                   (m_out = "raised" /\ m_err = m_calls[Len(m_calls)].out)
            /\ (m_pc \in {"loop", "done"} /\ m_doc # EmptyDoc
                /\ m_doc.kind \notin SupportedKinds) => m_out = "raised")
    /\ [][\A c \in Contexts : cluster[c] \subseteq cluster'[c]]_vars
    /\ [][(m_doc' # m_doc /\ m_inv' = m_inv) =>
             (m_pc = "loop" /\ m_left' = m_left - 1)]_vars
    /\ [][(m_op = "apply" /\ m_out = "raised" /\ m_inv' = m_inv) =>
             UNCHANGED <<cluster, m_calls, m_doc, m_left>>]_vars

PartialBatchApplied ==
    /\ m_op = "apply" /\ m_inv = 1
    /\ m_out = "raised" /\ m_left >= 1
    /\ m_api \in Contexts
    /\ \E obj \in cluster[m_api] : obj # <<m_doc.kind, m_doc.name>>

\* The apply of a document whose object existed when it began has run to its
\* end, and its read was answered with a transient fault.
ReadFailedOnExisting ==
    /\ m_op = "apply" /\ m_pc \in {"loop", "done"}
    /\ m_calls # <<>>
    /\ m_calls[1].verb = "read" /\ m_calls[1].out = ApiServerError
    /\ ~m_absent

\* C15: when the read fails transiently for an object that exists, exactly one
\* create follows and fails (already-exists, unless it too meets a fault), the
\* failure is raised to the caller, no patch is issued and the object is still
\* there.
ErroneousCreateSurfaces ==
    ReadFailedOnExisting =>
        /\ Len(m_calls) = 2
        /\ m_calls[2].verb = "create"
        /\ m_calls[2].out \in {ApiConflict, ApiServerError}
        /\ m_out = "raised" /\ m_pc = "done"
        /\ m_err = m_calls[2].out
        /\ VerbCalls("patch") = {}
        /\ Exists(m_api, m_doc.kind, m_doc.name)

CreateAnsweredAlreadyExists ==
    /\ ReadFailedOnExisting
    /\ m_calls[2].out = ApiConflict
    /\ m_err = ApiConflict

\* The answers of fetch_node_metrics' cluster let every reported node through
\* _parse_quantity.
NodesReported ==
    /\ ~dummy_mode
    /\ s_last.op = "fetch_node_metrics"
    /\ s_last.err = None /\ s_last.calls # <<>>
    /\ s_last.arg.usages # <<>>
    /\ \A i \in 1..Len(s_last.arg.usages) :
          /\ ParsedQuantity[s_last.arg.usages[i].cpu].ok
          /\ ParsedQuantity[s_last.arg.usages[i].memory].ok

\* C16: for each node the metrics API reports, kubelet_health and
\* karpenter_health are the status of the matching condition of the node, and
\* "Unknown" when none matches or when the node read fails.
NodeHealthFromConditions ==
    NodesReported =>
        /\ s_last.raised = None
        /\ Len(s_last.items) = Len(s_last.arg.usages)
        /\ \A i \in 1..Len(s_last.items) :
              /\ s_last.items[i].kubelet_health =
                   (IF s_last.arg.reads[1] = "ok"
                    THEN ScanConditions(s_last.arg.conds, "Ready")
                    ELSE "Unknown")
              /\ s_last.items[i].karpenter_health =
                   (IF s_last.arg.reads[2] = "ok"
                    THEN ScanConditions(s_last.arg.conds, "KarpenterInitialized")
                    ELSE "Unknown")

\* C17: after a listing, get_node or get_logs whose remote call failed on a
\* non-degraded session, connection_warning is the text of that error.
WarningRecordsFailure ==
    ( /\ ~dummy_mode
      /\ s_last.op \in ListOps \cup {"get_node", "get_logs"}
      /\ s_last.err # None ) =>
        /\ s_last.raised = None
        /\ connection_warning = s_last.err

\* C18: restart_deployment issues at most one read and at most one patch, the
\* patch only after the one successful read, whatever other writers do to the
\* deployment in between; and it answers with the success string whenever that
\* one patch is accepted, also when the deployment was updated after the read.
RestartSingleShot ==
    m_op = "restart" =>
        /\ CountVerb(m_calls, "read") <= 1
        /\ CountVerb(m_calls, "patch") <= 1
        /\ VerbCalls("patch") # {} =>
              /\ Len(m_calls) = 2
              /\ m_calls[1].verb = "read" /\ m_calls[1].out = "ok"
              /\ m_calls[2].verb = "patch"
              /\ m_pc = "done" /\ m_out = "returned"
              /\ m_ret = (IF m_calls[2].out = "ok" THEN Restarted(m_name)
                          ELSE RestartFailed)

StaleRestartReportedSuccess ==
    /\ RestartDone
    /\ Len(m_calls) = 2
    /\ m_calls[2].rev > m_calls[1].rev
    /\ m_calls[2].out = "ok"
    /\ m_ret = Restarted(m_name)

Handles == <<api_client, core, apps, batch, events>>

\* C19: a degraded session stays degraded under every operation, all its
\* handles stay unset, and set_context changes only active_context.
DegradedIsAbsorbing ==
    /\ [](dummy_mode => \A i \in 1..Len(Handles) : Handles[i] = None)
    /\ [][dummy_mode => dummy_mode']_vars
    /\ [][(dummy_mode /\ s_last'.op = "set_context") =>
             /\ active_context' = s_last'.arg
             /\ UNCHANGED <<dummy_mode, available_contexts, Handles,
                            connection_warning>>]_vars

DegradedManifestAfterSetContext ==
    /\ dummy_mode
    /\ active_context = "ctxB"
    /\ connection_warning = ConfigError
    /\ s_last.op = "get_resource_yaml"
    /\ s_last.ret = NoKubeconfigManifest

====
